---- MODULE Spec2Model ----
(***************************************************************************)
(* A model of the link resolution engine and the bucket provisioner of     *)
(* minio-control-api:                                                      *)
(*   api/v1/services/files.py     get_file_link_service, check_cached_images*)
(*   api/v1/routers/files.py      get_image_link                            *)
(*   api/v1/services/buckets.py   create_bucket_service                     *)
(*   api/v1/routers/buckets.py    create_bucket_endpoint                    *)
(*   core/files/in_minio.py       AsyncMinIOClient                          *)
(* Every await on the cache store or on the object store is a suspension    *)
(* point of asyncio: one action of the model runs a coroutine from the      *)
(* return of one awaited call to the start of the next one.                 *)
(***************************************************************************)
EXTENDS Naturals, Sequences, FiniteSets, TLC

(* ---------------------------------------------------------------- bounds *)

\* The clock takes the values 0..MaxTime (the X-Amz-Date of a presigned URL).
MaxTime == 1

\* Concurrent callers: each runs one endpoint or service call.
Callers == {"r1", "r2"}

(* ------------------------------------------------------- program values *)

\* Optional[T]: None is <<>>, a value x is <<x>>.
None == <<>>
Some(x) == <<x>>

\* ttl=3600 of redis.set, and the default expiration of get_presigned_url.
CacheTtl == 3600
PresignExpiration == 3600
\* response.status != 200
HTTP_OK == 200

placeholder_map ==
    [ image        |-> "img/placeholder.jpg",
      video        |-> "vid/placeholder.mp4",
      audio        |-> "aud/placeholder.mp3",
      document     |-> "doc/placeholder.pdf",
      archive      |-> "zip/placeholder.zip",
      presentation |-> "ppt/placeholder.pptx",
      code         |-> "src/placeholder.py",
      spreadsheet  |-> "xls/placeholder.xlsx" ]

\* key = f"file_link:{bucket_name}:{file_path}"
CacheKey(bucket_name, file_path) ==
    "file_link:" \o bucket_name \o ":" \o file_path

\* The URL generate_presigned_url signs for (bucket, object) at time t: the
\* same object signed in the same second with the same expiration gives the
\* same URL.
get_presigned_url(object_name, bucket, expiration, t) ==
    "http://minio/" \o bucket \o "/" \o object_name
        \o "?X-Amz-Date=" \o ToString(t)
        \o "&X-Amz-Expires=" \o ToString(expiration)

(* ------------------------------------------------------------- universe *)

\* The (bucket, object) pairs of the store the calls can name.
StoreObjects ==
    { <<"docs", "a.png">>,
      <<"default", "img/placeholder.jpg">> }

BucketNames == {"docs", "default"}

Keys == { CacheKey(o[1], o[2]) : o \in StoreObjects }

Links ==
    { get_presigned_url(o[2], o[1], PresignExpiration, t) :
          o \in StoreObjects, t \in 0..MaxTime }

\* The store of the key specification: one bucket, object names with and
\* without ':' (an object name may hold one, a bucket name of the store not).
KeyObjects ==
    { <<"a", "c.png">>,
      <<"a", "b:c.png">> }

\* The object a presigned URL addresses (what the store resolves it to).
ObjectOf(link) ==
    CHOOSE o \in StoreObjects \cup KeyObjects :
        \E t \in 0..MaxTime :
            link = get_presigned_url(o[2], o[1], PresignExpiration, t)

\* The statuses the store (or whatever serves the link) answers a GET with.
HttpStatuses == {200, 204, 404}

(* ---------------------------------------------------------------- state *)

VARIABLES
    objects,      \* the (bucket, object) pairs the object store holds
    buckets,      \* the buckets the object store holds
    cache,        \* the cache store: key -> Optional[[value, ttl]]
    now,          \* the clock presigned URLs are dated with
    req,          \* caller -> the coroutine of its call (frame and position)
    task,         \* caller -> the validation task its call spawned
    last_set,     \* history: key -> the caller whose redis.set came last
    invalidated   \* history: key -> deleted by a validation task, not set since

vars == <<objects, buckets, cache, now, req, task, last_set, invalidated>>

\* Exceptions, as (type, str(e)).
ValueError(msg) == [type |-> "ValueError", msg |-> msg]
KeyError(k) == [type |-> "KeyError", msg |-> "'" \o k \o "'"]
GatewayFailure ==
    [type |-> "EndpointConnectionError", msg |-> "Could not connect to the endpoint URL"]
CacheFailure ==
    [type |-> "ConnectionError", msg |-> "Error connecting to the cache store"]
BucketAlreadyOwnedByYou ==
    [type |-> "ClientError",
     msg  |-> "An error occurred (BucketAlreadyOwnedByYou) when calling the CreateBucket operation"]
ProbeFailure ==
    [type |-> "ClientConnectorError", msg |-> "Cannot connect to host"]

\* What a call has produced: nothing yet, a returned value or a raised exception.
Pending == [kind |-> "pending", value |-> None, exc |-> None]
Return(v) == [kind |-> "return", value |-> v, exc |-> None]
Raise(e) == [kind |-> "raise", value |-> None, exc |-> Some(e)]

\* The frame of a coroutine that has not been called.
IdleReq ==
    [ pc |-> "idle",
      caller |-> "none",                  \* the entry point that was called
      bucket_name |-> "", file_path |-> "", file_type |-> "",
      placeholder_if_not_found |-> FALSE,
      key |-> "", cached_link |-> None, link |-> None,
      depth |-> 0,                        \* recursive self-calls below the first call
      arg_bucket |-> "", arg_path |-> "", \* the arguments of the first call
      calls |-> <<>>,                     \* history: the gateway calls made
      reads |-> <<>>,                     \* history: what each redis.get found, and whether
                                          \*   it followed a validation delete of the key
      sets |-> <<>>,                      \* history: the keys written by redis.set
      stale |-> FALSE,                    \* history: returned a link whose object was gone
      after_stale |-> FALSE,              \* history: called after a stale link was returned for the key
      outcome |-> Pending,                \* of the service call
      response |-> None ]                 \* of the endpoint

NoTask ==
    [ pc |-> "none", link |-> "", key |-> "", status |-> None,
      deleted |-> FALSE,
      removed |-> None,                   \* history: what the delete found
      exc |-> None ]

\* A cache entry as redis.set(key, value, ttl=...) leaves it.
Entry(value, ttl) == [value |-> value, ttl |-> ttl]

\* The cache a process may find at start: empty, or entries an earlier run of
\* this program wrote (the presigned URL of the key's own object).
InitCaches ==
    { c \in [Keys -> {None} \cup { Some(Entry(l, CacheTtl)) : l \in Links }] :
        \A o \in StoreObjects :
            LET e == c[CacheKey(o[1], o[2])]
            IN  e # None =>
                  e[1].value = get_presigned_url(o[2], o[1], PresignExpiration, 0) }

Init ==
    /\ buckets \in SUBSET BucketNames
    /\ objects \in SUBSET { o \in StoreObjects : o[1] \in buckets }
    /\ cache \in InitCaches
    /\ now = 0
    /\ req = [r \in Callers |-> IdleReq]
    /\ task = [r \in Callers |-> NoTask]
    /\ last_set = [k \in Keys |-> None]
    /\ invalidated = [k \in Keys |-> FALSE]

(* ------------------------------------------------ the capability clients *)

\* AsyncRedisCache.get(key, compressed=True): the value, or None.
RedisGet(c, key, compressed) ==
    IF c[key] = None THEN None ELSE Some(c[key][1].value)

\* AsyncRedisCache.set(key, value, ttl=..., compress=True): an overwrite.
RedisSet(c, key, value, ttl, compress) ==
    [c EXCEPT ![key] = Some(Entry(value, ttl))]

\* AsyncRedisCache.delete(key).
RedisDelete(c, key) ==
    [c EXCEPT ![key] = None]

\* head_object succeeds; a ClientError (the object is absent) gives False.
file_exists(objs, object_name, bucket) ==
    <<bucket, object_name>> \in objs

\* head_bucket succeeds; a ClientError (the bucket is absent) gives False.
bucket_exists(bs, bucket) ==
    bucket \in bs

\* The status a GET of the link is answered with: the object is served, or
\* it is gone; a server may answer a success other than 200 (204).
ProbeStatuses(objs, link) ==
    IF ObjectOf(link) \in objs THEN {200, 204} ELSE {404}

(* ------------------------------------------------------- the endpoints *)

\* A slip: the handler catches nothing, and a raised exception leaves it
\* without a response.
get_image_link_response_Uncaught(outcome) ==
    IF outcome.kind = "raise"
    THEN [model |-> "HTTP 500", link |-> "", error |-> None]
    ELSE [model |-> "GetLinkResponseModel", link |-> outcome.value[1],
          error |-> None]

\* get_image_link: the response built from what the service call produced.
get_image_link_response(outcome) ==
    IF outcome.kind = "raise"
    THEN [model |-> "GetLinkResponseModel", link |-> "",
          error |-> Some(outcome.exc[1].msg)]
    ELSE IF outcome.value = None
    THEN [model |-> "GetLinkResponseModel", link |-> "",
          error |-> Some("Failed to generate link")]
    ELSE [model |-> "GetLinkResponseModel", link |-> outcome.value[1],
          error |-> None]

\* create_bucket_endpoint: the response built from what the service call produced.
create_bucket_response(bucket_name, outcome) ==
    IF outcome.kind = "raise"
    THEN [model |-> "CreateBucketResponse", bucket_name |-> "",
          error |-> Some(outcome.exc[1].msg)]
    ELSE [model |-> "CreateBucketResponse", bucket_name |-> bucket_name,
          error |-> None]

\* The coroutine of caller r ends with `outcome`; an endpoint turns it into
\* its response in the same step (no await lies between).
Finish(f, outcome) ==
    [f EXCEPT
        !.pc = "done",
        !.outcome = outcome,
        !.response =
            CASE f.caller = "get_image_link" ->
                     Some(get_image_link_response(outcome))
              [] f.caller = "create_bucket_endpoint" ->
                     Some(create_bucket_response(f.arg_bucket, outcome))
              [] OTHER -> None]

(* ------------------------------------------- get_file_link_service *)

\* The (project_id, file_path) pairs sent to the get-image-link endpoint.
ImageRequests == { <<"docs", "a.png">>, <<"default", "img/placeholder.jpg">> }

\* Entry of get_file_link_service: the key is computed and redis.get awaited.
Enter(f, bucket_name, file_path, file_type, placeholder_if_not_found) ==
    [f EXCEPT
        !.pc = "redis_get",
        !.bucket_name = bucket_name,
        !.file_path = file_path,
        !.file_type = file_type,
        !.placeholder_if_not_found = placeholder_if_not_found,
        !.key = CacheKey(bucket_name, file_path),
        !.cached_link = None,
        !.link = None]

\* A slip: the fallback looks the placeholder up in the requested bucket.
PlaceholderCall_SameBucket(f) ==
    Enter([f EXCEPT !.depth = f.depth + 1],
          f.bucket_name, placeholder_map[f.file_type], f.file_type, FALSE)

\* A slip: the fallback passes its own placeholder flag on.
PlaceholderCall_KeepsFlag(f) ==
    Enter([f EXCEPT !.depth = f.depth + 1],
          "default", placeholder_map[f.file_type], f.file_type,
          f.placeholder_if_not_found)

\* The recursive self-call of the placeholder fallback.
PlaceholderCall(f) ==
    Enter([f EXCEPT !.depth = f.depth + 1],
          "default", placeholder_map[f.file_type], f.file_type, FALSE)

\* The character at position i of string s.
CharAt(s, i) == SubSeq(s, i, i)

\* The last position of character ch in s, 0 when s has none.
LastIndex(s, ch) ==
    LET I == { i \in 1..Len(s) : CharAt(s, i) = ch }
    IN  IF I = {} THEN 0 ELSE CHOOSE i \in I : \A j \in I : j <= i

\* os.path.splitext: <<root, ext>>, ext opening at the last dot of the last
\* path component, leading dots of that component not counted.
splitext(v) ==
    LET sep == LastIndex(v, "/")
        dot == LastIndex(v, ".")
    IN  IF dot > sep /\ \E i \in (sep + 1)..(dot - 1) : CharAt(v, i) # "."
        THEN <<SubSeq(v, 1, dot - 1), SubSeq(v, dot, Len(v))>>
        ELSE <<v, "">>

UpperCase == "ABCDEFGHIJKLMNOPQRSTUVWXYZ"
LowerCase == "abcdefghijklmnopqrstuvwxyz"

\* str.lower, on the ASCII letters.
RECURSIVE lower(_)
lower(s) ==
    IF s = "" THEN ""
    ELSE LET ch == CharAt(s, 1)
             I  == { i \in 1..Len(UpperCase) : CharAt(UpperCase, i) = ch }
         IN  (IF I = {} THEN ch ELSE CharAt(LowerCase, CHOOSE i \in I : TRUE))
                 \o lower(SubSeq(s, 2, Len(s)))

\* GetImageLinkRequestModel._image_exts
image_exts == {".png", ".jpg", ".jpeg", ".gif", ".bmp", ".webp", ".tiff", ".svg"}

\* GetImageLinkRequestModel.file_path_must_be_image: TRUE when the value is
\* accepted. project_id has no validator: any string is accepted.
file_path_must_be_image(v) ==
    LET ext == splitext(v)[2]
    IN  ext # "" /\ lower(ext) \in image_exts

\* The endpoint calls the service with file_type="image".
get_image_link(r, project_id, file_path, placeholder_if_not_found) ==
    /\ req[r].pc = "idle"
    /\ file_path_must_be_image(file_path)
    /\ req' = [req EXCEPT ![r] =
                 Enter([req[r] EXCEPT !.caller = "get_image_link",
                                      !.arg_bucket = project_id,
                                      !.arg_path = file_path,
                                      !.after_stale =
                                          \E q \in Callers :
                                              /\ req[q].pc = "done"
                                              /\ req[q].stale
                                              /\ req[q].key = CacheKey(project_id, file_path)],
                       project_id, file_path, "image", placeholder_if_not_found)]
    /\ UNCHANGED <<objects, buckets, cache, now, task, last_set, invalidated>>

\* A slip: the cached link is returned and no validation is scheduled.
SpawnedTask_Forgotten(link, key) == NoTask

\* check_cached_images(link, key, redis) as asyncio.create_task leaves it:
\* scheduled, its GET not yet answered.
SpawnedTask(link, key) ==
    [NoTask EXCEPT !.pc = "probe", !.link = link, !.key = key]

\* The frame after a cache hit: the cached link is returned at once.
ReturnCached(f, cached_link, objs) ==
    Finish([f EXCEPT !.cached_link = cached_link,
                     !.stale = ObjectOf(cached_link[1]) \notin objs],
           Return(cached_link))

\* redis.get returns: a hit spawns the validation task and returns the cached
\* link; a miss opens the client and awaits file_exists.
RedisGetReturns(r) ==
    /\ req[r].pc = "redis_get"
    /\ LET f == [req[r] EXCEPT
                    !.reads = Append(@, [key |-> req[r].key,
                                         found |-> cache[req[r].key],
                                         after_delete |-> invalidated[req[r].key],
                                         after_fallback |->
                                             \E q \in Callers :
                                                 /\ req[q].pc = "done"
                                                 /\ req[q].depth = 1
                                                 /\ req[q].outcome.kind = "return"
                                                 /\ req[q].arg_bucket = req[r].arg_bucket
                                                 /\ req[q].arg_path = req[r].arg_path])]
           cached_link == RedisGet(cache, f.key, TRUE)
       IN  IF cached_link # None
           THEN /\ task' = [task EXCEPT ![r] = SpawnedTask(cached_link[1], f.key)]
                /\ req' = [req EXCEPT ![r] = ReturnCached(f, cached_link, objects)]
           ELSE /\ req' = [req EXCEPT ![r] = [f EXCEPT !.pc = "file_exists"]]
                /\ UNCHANGED task
    /\ UNCHANGED <<objects, buckets, cache, now, last_set, invalidated>>

\* A slip: a missing object gives None (as the docstring says), no exception.
Missing_ReturnsNone(f) ==
    IF f.placeholder_if_not_found
    THEN IF f.file_type \in DOMAIN placeholder_map
         THEN PlaceholderCall(f)
         ELSE Finish(f, Raise(KeyError(f.file_type)))
    ELSE Finish(f, Return(None))

\* The frame after file_exists returned False.
Missing(f) ==
    IF f.placeholder_if_not_found
    THEN IF f.file_type \in DOMAIN placeholder_map
         THEN PlaceholderCall(f)
         ELSE Finish(f, Raise(KeyError(f.file_type)))
    ELSE Finish(f, Raise(ValueError(
             "File " \o f.file_path \o " does not exist in bucket " \o f.bucket_name)))

\* file_exists returns.
FileExistsReturns(r) ==
    LET f == [req[r] EXCEPT
                 !.calls = Append(@, [op |-> "file_exists",
                                      bucket |-> req[r].bucket_name,
                                      object |-> req[r].file_path,
                                      depth |-> req[r].depth,
                                      result |-> file_exists(objects, req[r].file_path,
                                                             req[r].bucket_name)])]
    IN  /\ req[r].pc = "file_exists"
        /\ req' = [req EXCEPT ![r] =
                     IF file_exists(objects, f.file_path, f.bucket_name)
                     THEN [f EXCEPT !.pc = "get_presigned_url"]
                     ELSE Missing(f)]
        /\ UNCHANGED <<objects, buckets, cache, now, task, last_set, invalidated>>

\* get_presigned_url returns the link; redis.set is awaited.
PresignedUrlReturns(r) ==
    LET f == req[r]
    IN  /\ f.pc = "get_presigned_url"
        /\ req' = [req EXCEPT ![r] =
                     [f EXCEPT
                        !.pc = "redis_set",
                        !.link = Some(get_presigned_url(
                                     f.file_path, f.bucket_name, PresignExpiration, now)),
                        !.calls = Append(@, [op |-> "get_presigned_url",
                                             bucket |-> f.bucket_name,
                                             object |-> f.file_path,
                                             depth |-> f.depth,
                                             result |-> TRUE])]]
        /\ UNCHANGED <<objects, buckets, cache, now, task, last_set, invalidated>>

\* A slip: the key is built from the path alone, in the default bucket.
SetKey_DefaultBucket(f) == CacheKey("default", f.file_path)

\* A slip: the key is that of the pair the endpoint call named, also when
\* the link is the placeholder's.
SetKey_Requested(f) == CacheKey(f.arg_bucket, f.arg_path)

\* The key redis.set writes.
SetKey(f) == CacheKey(f.bucket_name, f.file_path)

\* A slip: the cache is written only when the key is still absent.
RedisSetReturns_IfAbsent(r) ==
    LET f == req[r]
        k == SetKey(f)
    IN  /\ f.pc = "redis_set"
        /\ cache' = IF cache[k] = None
                    THEN RedisSet(cache, k, f.link[1], CacheTtl, TRUE)
                    ELSE cache
        /\ req' = [req EXCEPT ![r] =
                     Finish([f EXCEPT !.sets = Append(@, k)], Return(f.link))]
        /\ last_set' = [last_set EXCEPT ![k] = Some(r)]
        /\ invalidated' = [invalidated EXCEPT ![k] = FALSE]
        /\ UNCHANGED <<objects, buckets, now, task>>

\* redis.set returns and the link is returned.
RedisSetReturns(r) ==
    LET f == req[r]
        k == SetKey(f)
    IN  /\ f.pc = "redis_set"
        /\ cache' = RedisSet(cache, k, f.link[1], CacheTtl, TRUE)
        /\ req' = [req EXCEPT ![r] =
                     Finish([f EXCEPT !.sets = Append(@, k)], Return(f.link))]
        /\ last_set' = [last_set EXCEPT ![k] = Some(r)]
        /\ invalidated' = [invalidated EXCEPT ![k] = FALSE]
        /\ UNCHANGED <<objects, buckets, now, task>>

\* A call of the object store fails in transport (no ClientError): it raises.
GatewayFails(r) ==
    /\ req[r].pc \in {"file_exists", "get_presigned_url", "bucket_exists", "create_bucket"}
    /\ req' = [req EXCEPT ![r] = Finish(req[r], Raise(GatewayFailure))]
    /\ UNCHANGED <<objects, buckets, cache, now, task, last_set, invalidated>>

\* A call of the cache store fails: it raises, the cache as it was.
CacheFails(r) ==
    /\ req[r].pc \in {"redis_get", "redis_set"}
    /\ req' = [req EXCEPT ![r] = Finish(req[r], Raise(CacheFailure))]
    /\ UNCHANGED <<objects, buckets, cache, now, task, last_set, invalidated>>

(* ------------------------------------------------- check_cached_images *)

\* if response.status != 200
MustDelete(status) == status # HTTP_OK

\* session.get(link) is answered with a status.
ProbeReturns(r, status) ==
    /\ task[r].pc = "probe"
    /\ status \in ProbeStatuses(objects, task[r].link)
    /\ task' = [task EXCEPT ![r] =
                  [@ EXCEPT !.status = Some(status),
                            !.pc = IF MustDelete(status) THEN "redis_delete" ELSE "done"]]
    /\ UNCHANGED <<objects, buckets, cache, now, req, last_set, invalidated>>

\* session.get(link) raises (no connection, a timeout): the task ends with
\* the exception, which nothing retrieves.
ProbeFails(r) ==
    /\ task[r].pc = "probe"
    /\ task' = [task EXCEPT ![r] = [@ EXCEPT !.pc = "failed", !.exc = Some(ProbeFailure)]]
    /\ UNCHANGED <<objects, buckets, cache, now, req, last_set, invalidated>>

\* A slip: the link, not the key, is handed to redis.delete.
DeleteKey_Link(t) == t.link

\* The key check_cached_images hands to redis.delete.
DeleteKey(t) == t.key

\* A guard the code does not have: the key is deleted only while it still
\* holds the link that was probed.
RedisDeleteReturns_IfSame(r) ==
    /\ task[r].pc = "redis_delete"
    /\ cache' = IF RedisGet(cache, task[r].key, TRUE) = Some(task[r].link)
                THEN RedisDelete(cache, DeleteKey(task[r]))
                ELSE cache
    /\ task' = [task EXCEPT ![r] =
                  [@ EXCEPT !.pc = "done", !.deleted = TRUE,
                            !.removed = cache[task[r].key]]]
    /\ invalidated' = [invalidated EXCEPT ![task[r].key] = TRUE]
    /\ UNCHANGED <<objects, buckets, now, req, last_set>>

\* redis.delete(key) returns.
RedisDeleteReturns(r) ==
    /\ task[r].pc = "redis_delete"
    /\ cache' = RedisDelete(cache, DeleteKey(task[r]))
    /\ task' = [task EXCEPT ![r] =
                  [@ EXCEPT !.pc = "done", !.deleted = TRUE,
                            !.removed = cache[task[r].key]]]
    /\ invalidated' = [invalidated EXCEPT ![task[r].key] = TRUE]
    /\ UNCHANGED <<objects, buckets, now, req, last_set>>

\* redis.delete(key) raises: the task ends with the exception.
RedisDeleteFails(r) ==
    /\ task[r].pc = "redis_delete"
    /\ task' = [task EXCEPT ![r] = [@ EXCEPT !.pc = "failed", !.exc = Some(CacheFailure)]]
    /\ UNCHANGED <<objects, buckets, cache, now, req, last_set, invalidated>>

(* ------------------------------------------------ ensure_bucket_exists *)

\* create_bucket_endpoint -> create_bucket_service -> ensure_bucket_exists:
\* the client is opened and bucket_exists awaited.
create_bucket_endpoint(r, bucket_name) ==
    /\ req[r].pc = "idle"
    /\ req' = [req EXCEPT ![r] =
                 [@ EXCEPT !.pc = "bucket_exists",
                           !.caller = "create_bucket_endpoint",
                           !.arg_bucket = bucket_name,
                           !.bucket_name = bucket_name]]
    /\ UNCHANGED <<objects, buckets, cache, now, task, last_set, invalidated>>

\* bucket_exists returns: create_bucket is awaited only for an absent bucket.
BucketExistsReturns(r) ==
    LET f == [req[r] EXCEPT
                 !.calls = Append(@, [op |-> "bucket_exists",
                                      bucket |-> req[r].bucket_name,
                                      object |-> "",
                                      depth |-> 0,
                                      result |-> bucket_exists(buckets, req[r].bucket_name)])]
    IN  /\ f.pc = "bucket_exists"
        /\ req' = [req EXCEPT ![r] =
                     IF bucket_exists(buckets, f.bucket_name)
                     THEN Finish(f, Return(None))
                     ELSE [f EXCEPT !.pc = "create_bucket"]]
        /\ UNCHANGED <<objects, buckets, cache, now, task, last_set, invalidated>>

\* What ensure_bucket_exists makes of create_bucket on a bucket that exists
\* by now (the store answers BucketAlreadyOwnedByYou, a ClientError).
CreateOnExisting ==
    Raise(BucketAlreadyOwnedByYou)

\* create_bucket returns or raises.
CreateBucketReturns(r) ==
    LET f == [req[r] EXCEPT
                 !.calls = Append(@, [op |-> "create_bucket",
                                      bucket |-> req[r].bucket_name,
                                      object |-> "",
                                      depth |-> 0,
                                      result |-> req[r].bucket_name \notin buckets])]
    IN  /\ f.pc = "create_bucket"
        /\ IF f.bucket_name \in buckets
           THEN /\ req' = [req EXCEPT ![r] = Finish(f, CreateOnExisting)]
                /\ UNCHANGED buckets
           ELSE /\ req' = [req EXCEPT ![r] = Finish(f, Return(None))]
                /\ buckets' = buckets \cup {f.bucket_name}
        /\ UNCHANGED <<objects, cache, now, task, last_set, invalidated>>

(* ---------------------------------------------------------- environment *)

\* Time passes.
Tick ==
    /\ now < MaxTime
    /\ now' = now + 1
    /\ UNCHANGED <<objects, buckets, cache, req, task, last_set, invalidated>>

\* The cache store drops an entry whose TTL has elapsed.
Expire(k) ==
    /\ cache[k] # None
    /\ cache' = [cache EXCEPT ![k] = None]
    /\ UNCHANGED <<objects, buckets, now, req, task, last_set, invalidated>>

\* An object is deleted from the store (not by this program).
DeleteObject(o) ==
    /\ o \in objects
    /\ objects' = objects \ {o}
    /\ UNCHANGED <<buckets, cache, now, req, task, last_set, invalidated>>

(* -------------------------------------------------------- specification *)

Next ==
    \/ \E r \in Callers, o \in ImageRequests, p \in BOOLEAN :
          get_image_link(r, o[1], o[2], p)
    \/ \E r \in Callers, b \in BucketNames : create_bucket_endpoint(r, b)
    \/ \E r \in Callers :
          \/ RedisGetReturns(r)
          \/ FileExistsReturns(r)
          \/ PresignedUrlReturns(r)
          \/ RedisSetReturns(r)
          \/ GatewayFails(r)
          \/ CacheFails(r)
          \/ BucketExistsReturns(r)
          \/ CreateBucketReturns(r)
          \/ \E status \in HttpStatuses : ProbeReturns(r, status)
          \/ ProbeFails(r)
          \/ RedisDeleteReturns(r)
          \/ RedisDeleteFails(r)
    \/ Tick
    \/ \E k \in Keys : Expire(k)
    \/ \E o \in StoreObjects : DeleteObject(o)

Spec == Init /\ [][Next]_vars

(* ---------------------------------------------- the key specification *)

\* The request bodies sent to the endpoint: project ids and paths with and
\* without the ':' of the cache key, one path that is no image.
KeyProjects == {"a", "a:b"}
KeyPaths == {"c.png", "b:c.png", "C.PNG", "c.txt"}

\* The (project_id, file_path) pairs GetImageLinkRequestModel accepts.
KeyRequests ==
    { o \in KeyProjects \X KeyPaths : file_path_must_be_image(o[2]) }

KeyKeys == { CacheKey(o[1], o[2]) : o \in KeyRequests }

\* An empty cache, a store with bucket "a" and some of its objects.
KeyInit ==
    /\ buckets = {"a"}
    /\ objects \in SUBSET KeyObjects
    /\ cache = [k \in KeyKeys |-> None]
    /\ now = 0
    /\ req = [r \in Callers |-> IdleReq]
    /\ task = [r \in Callers |-> NoTask]
    /\ last_set = [k \in KeyKeys |-> None]
    /\ invalidated = [k \in KeyKeys |-> FALSE]

KeyNext ==
    \/ \E r \in Callers, project_id \in KeyProjects, file_path \in KeyPaths :
          get_image_link(r, project_id, file_path, FALSE)
    \/ \E r \in Callers :
          \/ RedisGetReturns(r)
          \/ FileExistsReturns(r)
          \/ PresignedUrlReturns(r)
          \/ RedisSetReturns(r)
          \/ GatewayFails(r)
          \/ CacheFails(r)
          \/ \E status \in HttpStatuses : ProbeReturns(r, status)
          \/ ProbeFails(r)
          \/ RedisDeleteReturns(r)
          \/ RedisDeleteFails(r)
    \/ Tick
    \/ \E k \in KeyKeys : Expire(k)
    \/ \E o \in KeyObjects : DeleteObject(o)

KeySpec == KeyInit /\ [][KeyNext]_vars

(* =============================================================== claims *)

IsLinkCall(r) == req[r].caller = "get_image_link"
IsBucketCall(r) == req[r].caller = "create_bucket_endpoint"
Last(seq) == seq[Len(seq)]

\* The frame made a file_exists call for (bucket, object) at depth d, or is
\* awaiting it, or the call failed in transport.
LooksUp(f, d, key) ==
    \/ \E j \in 1..Len(f.calls) :
          /\ f.calls[j].op = "file_exists"
          /\ f.calls[j].depth = d
          /\ CacheKey(f.calls[j].bucket, f.calls[j].object) = key
    \/ f.depth = d /\ f.key = key /\ f.pc = "file_exists"
    \/ f.depth = d /\ f.key = key /\ f.outcome = Raise(GatewayFailure)

(* C1, as the spec states it: once a call has returned the stale link of a  *)
(* key, every call made later for that key finds the key deleted, whatever  *)
(* the validation task has done by then: the stale link is received at most *)
(* once.                                                                    *)
C1_StaleAtMostOnce ==
    \A r \in Callers :
        (IsLinkCall(r) /\ req[r].after_stale /\ Len(req[r].reads) >= 1)
            => /\ req[r].reads[1].found = None
               /\ ~req[r].stale

(* C1, amended: a call that hits a link whose object is gone returns that   *)
(* cached link; a redis.get that follows a validation task's delete of the  *)
(* key (with no redis.set of the key in between) finds the key absent, and  *)
(* the call goes on to a fresh file_exists lookup. A call that reads before *)
(* the delete gets the stale link again.                                    *)
C1_SelfHealing ==
    \A r \in Callers :
        LET f == req[r]
        IN  /\ f.stale =>
                 /\ f.pc = "done"
                 /\ f.outcome = Return(f.cached_link)
                 /\ f.cached_link = Some(Last(f.reads).found[1].value)
            /\ \A i \in 1..Len(f.reads) :
                 f.reads[i].after_delete =>
                     /\ f.reads[i].found = None
                     /\ f.depth = i - 1 => (f.cached_link = None /\ ~f.stale)
                     /\ f.depth = i - 1 => LooksUp(f, i - 1, f.reads[i].key)

\* A stale link was returned, its validation task deleted the key, and a call
\* made after that return read the key after the delete and is looking the
\* object up in the store.
C1_Witness ==
    \E r1, r2 \in Callers :
        /\ r1 # r2
        /\ req[r1].stale /\ task[r1].deleted
        /\ req[r2].after_stale
        /\ Len(req[r2].reads) = 1 /\ req[r2].reads[1].after_delete
        /\ req[r2].pc = "file_exists"

\* What a call that hit the cache has done when it is over.
C2_Hit(r) ==
    LET f == req[r]
    IN  (IsLinkCall(r) /\ f.pc = "done" /\ f.cached_link # None) =>
            /\ f.outcome = Return(f.cached_link)
            /\ Last(f.reads).key = f.key
            /\ f.cached_link = Some(Last(f.reads).found[1].value)
            /\ \A j \in 1..Len(f.calls) : f.calls[j].depth < f.depth
            /\ f.sets = <<>>
            /\ task[r].pc # "none"
            /\ task[r].link = f.cached_link[1]
            /\ task[r].key = f.key
            /\ f.response = Some([model |-> "GetLinkResponseModel",
                                  link |-> f.cached_link[1], error |-> None])

\* A hit ends the call in the step of the read; a call that is over stays as it is.
C2_HitStep(r) ==
    /\ ( /\ req[r].pc = "redis_get"
         /\ cache[req[r].key] # None
         /\ req'[r] # req[r]
         /\ req'[r].outcome # Raise(CacheFailure) )
       => /\ req'[r].pc = "done"
          /\ req'[r].outcome = Return(Some(cache[req[r].key][1].value))
          /\ task[r].pc = "none" /\ task'[r].pc = "probe"
    /\ req[r].pc = "done" => req'[r] = req[r]

(* C2: a call whose redis.get finds a value returns exactly that value in   *)
(* the same step, with no gateway call in that frame and no cache write,    *)
(* and leaves one validation task scheduled for (link, key); the call is    *)
(* over before the task has done anything, and nothing the task does later  *)
(* (probe, delete, failure) changes what the call returned.                 *)
C2_FastPath ==
    /\ [](\A r \in Callers : C2_Hit(r))
    /\ [][\A r \in Callers : C2_HitStep(r)]_vars

\* A call that returned the cached link, and whose validation task failed.
C2_Witness ==
    \E r \in Callers :
        /\ IsLinkCall(r) /\ req[r].pc = "done" /\ req[r].cached_link # None
        /\ req[r].outcome = Return(req[r].cached_link)
        /\ task[r].pc = "failed"

\* The step in which caller r's redis.set returns and the link is returned.
SetStep(r) ==
    /\ req[r].pc = "redis_set"
    /\ req'[r].pc = "done"
    /\ req'[r].outcome.kind = "return"

\* What the miss path leaves: the returned link is the gateway's presigned URL
\* of (bucket, path), non-empty, and the cache holds it under
\* file_link:<bucket>:<path> with TTL 3600, so that redis.get gives it back.
C3_Post(r) ==
    SetStep(r) =>
        LET f == req'[r]
            k == "file_link:" \o f.bucket_name \o ":" \o f.file_path
        IN  /\ Last(f.reads).found = None
            /\ \E j \in 1..Len(f.calls) :
                  /\ f.calls[j].op = "file_exists" /\ f.calls[j].result
                  /\ f.calls[j].depth = f.depth
                  /\ f.calls[j].bucket = f.bucket_name
                  /\ f.calls[j].object = f.file_path
            /\ f.outcome = Return(f.link)
            /\ f.link # None /\ f.link[1] # ""
            /\ \E t \in 0..now :
                  f.link[1] = get_presigned_url(f.file_path, f.bucket_name, 3600, t)
            /\ cache'[k] = Some(Entry(f.link[1], 3600))
            /\ RedisGet(cache', k, TRUE) = f.outcome.value
            /\ f.sets = <<k>>

\* A call that missed, found the object and met no transport failure
\* returns its link.
C3_Returns(r) ==
    LET f == req[r]
    IN  ( /\ IsLinkCall(r) /\ f.pc = "done"
          /\ f.calls # <<>>
          /\ Last(f.calls).depth = f.depth
          /\ \E j \in 1..Len(f.calls) :
                /\ f.calls[j].op = "file_exists" /\ f.calls[j].result
                /\ f.calls[j].depth = f.depth
          /\ f.outcome \notin {Raise(GatewayFailure), Raise(CacheFailure)} )
        => /\ f.outcome.kind = "return"
           /\ f.outcome.value = f.link
           /\ f.sets = <<f.key>>

\* The entry a miss path wrote under k changes in this step.
WrittenEntryChanges(k) ==
    /\ last_set[k] # None
    /\ cache[k] # None
    /\ cache'[k] # cache[k]

(* C3, as the spec states it: the miss path returns the presigned URL and   *)
(* caches it under the key with TTL 3600, and a read of the key gives that  *)
(* link until the TTL elapses or the entry is invalidated: the entry only   *)
(* ever changes by disappearing.                                            *)
C3_KeptUntilGone ==
    [][ /\ \A r \in Callers : C3_Post(r)
        /\ \A k \in Keys : WrittenEntryChanges(k) => cache'[k] = None ]_vars

(* C3, amended: the miss path returns the presigned URL and caches it under *)
(* the key with TTL 3600, and a read of the key gives that link until the   *)
(* TTL elapses, the entry is invalidated, or another call that also missed  *)
(* the key overwrites it with the link it was issued.                       *)
C3_MissPath ==
    /\ [](\A r \in Callers : C3_Returns(r))
    /\ [][ /\ \A r \in Callers : C3_Post(r)
           /\ \A k \in Keys :
                 WrittenEntryChanges(k) =>
                     \/ cache'[k] = None
                     \/ \E r \in Callers :
                           /\ SetStep(r)
                           /\ req[r].key = k
                           /\ Last(req[r].reads).found = None
                           /\ cache'[k] = Some(Entry(req[r].link[1], 3600)) ]_vars

\* A call that missed, was issued a link and returned it, the cache holding it.
C3_Witness ==
    \E r \in Callers :
        /\ IsLinkCall(r) /\ req[r].pc = "done"
        /\ req[r].cached_link = None /\ req[r].link # None
        /\ req[r].outcome = Return(req[r].link)
        /\ cache[req[r].key] = Some(Entry(req[r].link[1], 3600))

\* file_exists answered False to the frame the call ended in.
EndedOnMissing(f) ==
    /\ f.pc = "done"
    /\ f.calls # <<>>
    /\ Last(f.calls).op = "file_exists"
    /\ ~Last(f.calls).result
    /\ Last(f.calls).depth = f.depth

CodeFrame(f) ==
    [ pc |-> f.pc, bucket_name |-> f.bucket_name, file_path |-> f.file_path,
      file_type |-> f.file_type,
      placeholder_if_not_found |-> f.placeholder_if_not_found,
      key |-> f.key, cached_link |-> f.cached_link, link |-> f.link ]

\* The step in which caller r falls back to the placeholder.
FallbackStep(r) ==
    /\ req[r].pc = "file_exists"
    /\ req'[r].depth = req[r].depth + 1

\* The fallback leaves the frame a direct call of ("default", catalog path,
\* placeholder_if_not_found=false) starts in, in the same cache and store.
C5_SameStart(r) ==
    FallbackStep(r) =>
        LET f == req[r]
            direct == Enter(IdleReq, "default", placeholder_map[f.file_type],
                            f.file_type, FALSE)
        IN  /\ f.file_type \in DOMAIN placeholder_map
            /\ f.placeholder_if_not_found
            /\ ~file_exists(objects, f.file_path, f.bucket_name)
            /\ Last(f.reads).found = None
            /\ CodeFrame(req'[r]) = CodeFrame(direct)
            /\ \A ft \in DOMAIN placeholder_map :
                  CodeFrame(PlaceholderCall([f EXCEPT !.file_type = ft]))
                      = CodeFrame(Enter(IdleReq, "default", placeholder_map[ft], ft, FALSE))
            /\ \A q \in Callers :
                  ( /\ req[q].pc = "idle" /\ req'[q].pc = "redis_get"
                    /\ req'[q].arg_bucket = "default"
                    /\ req'[q].arg_path = placeholder_map[f.file_type]
                    /\ ~req'[q].placeholder_if_not_found )
                  => CodeFrame(req'[q]) = CodeFrame(direct)
            /\ cache' = cache /\ objects' = objects /\ task' = task

\* What a call that fell back ends with is what the direct call can end with.
C5_SameEnd(r) ==
    LET f == req[r]
        path == placeholder_map[f.file_type]
        key == CacheKey("default", path)
    IN  f.depth >= 1 =>
            /\ f.key = key
            /\ \A j \in 1..Len(f.calls) :
                  f.calls[j].depth >= 1 =>
                      (f.calls[j].bucket = "default" /\ f.calls[j].object = path)
            /\ \A j \in 1..Len(f.sets) : f.sets[j] = key
            /\ f.pc = "done" =>
                  \/ /\ f.cached_link # None
                     /\ f.outcome = Return(f.cached_link)
                     /\ ObjectOf(f.cached_link[1]) = <<"default", path>>
                     /\ f.sets = <<>>
                  \/ /\ f.cached_link = None /\ f.link # None
                     /\ f.outcome = Return(f.link)
                     /\ ObjectOf(f.link[1]) = <<"default", path>>
                     /\ f.sets = <<key>>
                  \/ f.outcome = Raise(ValueError(
                         "File " \o path \o " does not exist in bucket default"))
                  \/ f.outcome \in {Raise(GatewayFailure), Raise(CacheFailure)}

(* C5: with placeholder_if_not_found=true, an uncached missing object makes *)
(* the call continue exactly as a direct call of get_file_link_service on   *)
(* ("default", placeholder_map[file_type]) with the flag false starts, in   *)
(* the same cache and store, so it ends as that call ends: the placeholder's *)
(* link under the placeholder's key, or that call's failure.                *)
C5_PlaceholderEquivalence ==
    /\ [](\A r \in Callers : C5_SameEnd(r))
    /\ [][\A r \in Callers : C5_SameStart(r)]_vars

\* A call for a missing object of bucket "docs" returned the placeholder's link.
C5_Witness ==
    \E r \in Callers :
        /\ req[r].pc = "done" /\ req[r].depth = 1
        /\ req[r].arg_bucket = "docs"
        /\ req[r].outcome.kind = "return"
        /\ req[r].sets = <<CacheKey("default", "img/placeholder.jpg")>>

\* The awaits a frame at this position can still go through, at most.
Rank(f) ==
    CASE f.pc = "idle" -> 9
      [] f.pc = "done" -> 0
      [] f.pc = "redis_set" -> 1
      [] f.pc = "get_presigned_url" -> 2
      [] f.pc = "file_exists" -> IF f.depth = 0 THEN 7 ELSE 3
      [] f.pc = "redis_get" -> IF f.depth = 0 THEN 8 ELSE 4
      [] OTHER -> 9

\* A step of caller r's get_file_link_service.
ServiceStep(r) ==
    \/ RedisGetReturns(r)
    \/ FileExistsReturns(r)
    \/ PresignedUrlReturns(r)
    \/ RedisSetReturns(r)

\* One self-call at most, with the flag false; a missing placeholder raises;
\* the call can always take its next step.
C6_Bounded(r) ==
    LET f == req[r]
    IN  IsLinkCall(r) =>
            /\ f.depth <= 1
            /\ Len(f.reads) <= f.depth + 1
            /\ f.depth = 1 =>
                  /\ ~f.placeholder_if_not_found
                  /\ f.bucket_name = "default"
                  /\ f.file_path = placeholder_map[f.file_type]
            /\ (f.depth = 1 /\ EndedOnMissing(f)) =>
                  /\ f.outcome = Raise(ValueError(
                         "File " \o f.file_path \o " does not exist in bucket default"))
                  /\ f.sets = <<>>
            /\ f.pc \notin {"idle", "done"} => ENABLED ServiceStep(r)

(* C6: a call makes at most one recursive self-call, always with            *)
(* placeholder_if_not_found=false and on ("default", catalog path); when     *)
(* the placeholder is missing too the call raises; and the call ends: it is *)
(* never blocked, and each of its steps brings it closer to its end (at     *)
(* most 8 awaits), also when the request names the placeholder itself.      *)
C6_RecursionDepthOne ==
    /\ [](\A r \in Callers : C6_Bounded(r))
    /\ [][\A r \in Callers :
            (req'[r] # req[r] /\ req'[r].caller = "get_image_link")
                => Rank(req'[r]) < Rank(req[r])]_vars

\* The request named the placeholder itself, the placeholder is missing, the
\* call fell back once and failed.
C6_Witness ==
    \E r \in Callers :
        /\ req[r].arg_bucket = "default"
        /\ req[r].arg_path = "img/placeholder.jpg"
        /\ req[r].depth = 1
        /\ EndedOnMissing(req[r])
        /\ req[r].outcome.kind = "raise"

(* C7, as the spec states it: ensure_bucket_exists surfaces no error when   *)
(* the bucket exists by the time its create call runs (with two calls       *)
(* interleaved between the existence check and the create call, the second  *)
(* create finds the bucket there), and the bucket exists afterwards.        *)
C7_Idempotent ==
    \A r \in Callers :
        (IsBucketCall(r) /\ req[r].pc = "done"
            /\ req[r].outcome # Raise(GatewayFailure))
            => /\ req[r].outcome.kind = "return"
               /\ req[r].response[1].error = None
               /\ req[r].bucket_name \in buckets

\* The finished validation task's probe succeeded: a 2xx status.
ProbeSucceeded(t) ==
    /\ t.status # None
    /\ t.status[1] >= 200 /\ t.status[1] <= 299

(* C8, as the spec states it: a validation task deletes its key whenever    *)
(* the probe did not succeed (a non-2xx status, a transport failure) and    *)
(* leaves it on every 2xx status; no request sees an error of the task.     *)
C8_DeleteUnlessSuccess ==
    \A r \in Callers :
        /\ (task[r].pc \in {"done", "failed"} /\ task[r].exc # Some(CacheFailure))
              => (task[r].deleted <=> ~ProbeSucceeded(task[r]))
        /\ task[r].pc # "none" => req[r].outcome = Return(req[r].cached_link)

(* C9: when an endpoint's call is over there is a response: after a raised  *)
(* exception (NotFound, a gateway or a cache failure, a create on an        *)
(* existing bucket) it carries str(e) as its error and an empty link or     *)
(* bucket name; after a return it carries no error and the returned link or *)
(* the bucket name.                                                         *)
C9_ErrorsAsData ==
    \A r \in Callers :
        LET f == req[r]
        IN  /\ f.pc = "done" =>
                 /\ f.outcome.kind \in {"return", "raise"}
                 /\ f.response # None
            /\ (f.pc = "done" /\ IsLinkCall(r)) =>
                 LET resp == f.response[1]
                 IN  /\ resp.model = "GetLinkResponseModel"
                     /\ f.outcome.kind = "raise" =>
                           /\ resp.link = ""
                           /\ resp.error # None
                           /\ resp.error = Some(f.outcome.exc[1].msg)
                     /\ f.outcome.kind = "return" =>
                           /\ resp.error = None
                           /\ resp.link # ""
                           /\ Some(resp.link) = f.outcome.value
            /\ (f.pc = "done" /\ IsBucketCall(r)) =>
                 LET resp == f.response[1]
                 IN  /\ resp.model = "CreateBucketResponse"
                     /\ f.outcome.kind = "raise" =>
                           /\ resp.bucket_name = ""
                           /\ resp.error # None
                           /\ resp.error = Some(f.outcome.exc[1].msg)
                     /\ f.outcome.kind = "return" =>
                           /\ resp.error = None
                           /\ resp.bucket_name = f.arg_bucket
            /\ f.pc # "done" => f.response = None

\* One endpoint answered a service failure, the other a success.
C9_Witness ==
    \E r1, r2 \in Callers :
        /\ IsLinkCall(r1) /\ req[r1].pc = "done"
        /\ req[r1].outcome.kind = "raise"
        /\ req[r1].response[1].error # None
        /\ IsBucketCall(r2) /\ req[r2].pc = "done"
        /\ req[r2].outcome.kind = "return"
        /\ req[r2].response[1].bucket_name = req[r2].arg_bucket

\* Callers r1 and r2 both missed key k and both wrote it.
BothMissed(r1, r2, k) ==
    /\ r1 # r2
    /\ req[r1].sets = <<k>> /\ req[r2].sets = <<k>>
    /\ Last(req[r1].reads).found = None
    /\ Last(req[r2].reads).found = None

\* Each writer returned its own link; a key holds its last writer's link.
C10_Holds ==
    /\ \A r \in Callers :
          req[r].sets # <<>> =>
              /\ req[r].outcome = Return(req[r].link)
              /\ \E j \in 1..Len(req[r].calls) :
                    /\ req[r].calls[j].op = "get_presigned_url"
                    /\ req[r].calls[j].depth = req[r].depth
                    /\ ObjectOf(req[r].link[1])
                          = <<req[r].calls[j].bucket, req[r].calls[j].object>>
    /\ \A k \in Keys :
          (last_set[k] # None /\ cache[k] # None) =>
              cache[k] = Some(Entry(req[last_set[k][1]].link[1], 3600))
    /\ \A r1, r2 \in Callers, k \in Keys :
          (BothMissed(r1, r2, k) /\ cache[k] # None) =>
              cache[k][1].value \in {req[r1].link[1], req[r2].link[1]}

(* C10: calls that miss the same key each look the object up and each write *)
(* the cache, nothing excluding the other: each returns the link it was     *)
(* issued itself, each write leaves exactly the writer's link under the key, *)
(* and what the key holds is the link of the call that wrote last (until    *)
(* the entry expires or is invalidated).                                    *)
C10_LastWriterWins ==
    /\ []C10_Holds
    /\ [][\A r \in Callers :
            SetStep(r) =>
                /\ cache'[req[r].key] = Some(Entry(req[r].link[1], 3600))
                /\ last_set'[req[r].key] = Some(r)]_vars

\* Two calls missed the same key and were issued different links; the key
\* holds the link of the one that wrote last, not the other's.
C10_Witness ==
    \E r1, r2 \in Callers, k \in Keys :
        /\ BothMissed(r1, r2, k)
        /\ req[r1].pc = "done" /\ req[r2].pc = "done"
        /\ req[r1].link # req[r2].link
        /\ last_set[k] = Some(r2)
        /\ cache[k] = Some(Entry(req[r2].link[1], 3600))
        /\ req[r1].outcome = Return(req[r1].link)

\* The validation task of caller r completes its redis.delete.
DeleteStep(r) ==
    /\ task[r].pc = "redis_delete"
    /\ task'[r].pc = "done"

\* The hit that spawned the task of caller r: key K was read and held link L.
ProbedUnder(r) ==
    \E i \in 1..Len(req[r].reads) :
        /\ req[r].reads[i].key = task[r].key
        /\ req[r].reads[i].found # None
        /\ req[r].reads[i].found[1].value = task[r].link

(* C11 as stated: a validation task spawned for link L under key K removes *)
(* K only if K still holds L at the moment of deletion; an entry that was  *)
(* re-populated with another link in between is not deleted.               *)
C11_DeletesOnlyProbed ==
    [][\A r \in Callers :
          (/\ DeleteStep(r)
           /\ cache[task[r].key] # None
           /\ cache[task[r].key][1].value # task[r].link)
              => cache'[task[r].key] = cache[task[r].key]]_vars

\* A validation task deleted, and did so after a probe that did not answer
\* 200 of the link its caller had read under the key.
C11_ProbedFirst ==
    \A r \in Callers :
        task[r].pc = "redis_delete" \/ task[r].deleted =>
            /\ task[r].status # None
            /\ MustDelete(task[r].status[1])
            /\ ProbedUnder(r)

(* C11: a validation task spawned for link L under key K deletes by key,   *)
(* not by value: once its probe of L was answered with a status other than *)
(* 200 it removes K whatever K holds at the moment of deletion, a fresh     *)
(* link another call wrote under K in between included, and it changes no  *)
(* other key; before that step the task changes nothing in the cache.       *)
C11_DeletesByKey ==
    /\ []C11_ProbedFirst
    /\ [][\A r \in Callers :
            /\ DeleteStep(r) =>
                  /\ cache'[task[r].key] = None
                  /\ \A k \in Keys \ {task[r].key} : cache'[k] = cache[k]
            /\ (task'[r] # task[r] /\ req'[r] = req[r] /\ ~DeleteStep(r)) =>
                  cache' = cache]_vars

\* A task deleted a link other than the one it probed: a link issued later
\* to another call, whose object is in the store.
C11_Witness ==
    \E r1, r2 \in Callers :
        /\ r1 # r2
        /\ task[r1].deleted
        /\ task[r1].removed # None
        /\ task[r1].removed[1].value # task[r1].link
        /\ req[r2].sets = <<task[r1].key>>
        /\ req[r2].link = Some(task[r1].removed[1].value)
        /\ ObjectOf(task[r1].removed[1].value) \in objects
        /\ cache[task[r1].key] = None

\* The (bucket, path) pair the endpoint call of caller r named.
Named(r) == <<req[r].arg_bucket, req[r].arg_path>>

\* Calls that named distinct pairs read and write distinct keys.
DistinctKeys ==
    \A r1, r2 \in Callers :
        (IsLinkCall(r1) /\ IsLinkCall(r2) /\ Named(r1) # Named(r2)) =>
            CacheKey(req[r1].arg_bucket, req[r1].arg_path)
                # CacheKey(req[r2].arg_bucket, req[r2].arg_path)

\* A link returned to a call (no placeholder asked for) addresses the pair
\* the call named.
OwnLink ==
    \A r \in Callers :
        (/\ IsLinkCall(r) /\ req[r].pc = "done"
         /\ ~req[r].placeholder_if_not_found
         /\ req[r].outcome.kind = "return"
         /\ req[r].outcome.value # None) =>
            ObjectOf(req[r].outcome.value[1]) = Named(r)

(* C12: two distinct (bucket, path) pairs the get-image-link endpoint      *)
(* accepted never map to the same cache key, and a link returned to a call *)
(* addresses the (bucket, path) the call named, also when the bucket       *)
(* identifier or the path contains ':'.                                    *)
C12_Injective == DistinctKeys /\ OwnLink

\* The key of the image placeholder in the default bucket.
PlaceholderKey == CacheKey("default", placeholder_map["image"])

\* Call r fell back to the placeholder of an object other than the
\* placeholder itself.
FellBack(f) ==
    /\ f.caller = "get_image_link"
    /\ f.depth = 1
    /\ CacheKey(f.arg_bucket, f.arg_path) # PlaceholderKey

\* What a call has written: at most one key, that of the object its
\* presigned URL was issued for; nothing when it failed; the placeholder's
\* key alone when it fell back.
C13_Written ==
    \A r \in Callers :
        LET f == req[r]
        IN  IsLinkCall(r) =>
              /\ Len(f.sets) <= 1
              /\ f.sets # <<>> =>
                    /\ f.pc = "done"
                    /\ f.outcome = Return(f.link)
                    /\ \E j \in 1..Len(f.calls) :
                          /\ f.calls[j].op = "get_presigned_url"
                          /\ CacheKey(f.calls[j].bucket, f.calls[j].object) = f.sets[1]
                          /\ ObjectOf(f.link[1])
                                = <<f.calls[j].bucket, f.calls[j].object>>
              /\ (f.pc = "done" /\ f.outcome.kind = "raise") => f.sets = <<>>
              /\ (FellBack(f) /\ f.sets # <<>>) => f.sets = <<PlaceholderKey>>

\* A step of call r: only its redis.set changes the cache, and only the key
\* it records; a call that fell back leaves the key it was asked for alone.
C13_StepFrame(r) ==
    req'[r] # req[r] =>
        /\ IF SetStep(r)
           THEN /\ req'[r].sets = <<req[r].key>>
                /\ cache'[req[r].key] = Some(Entry(req[r].link[1], 3600))
                /\ \A k \in Keys \ {req[r].key} : cache'[k] = cache[k]
           ELSE cache' = cache
        /\ FellBack(req'[r]) =>
              cache'[CacheKey(req[r].arg_bucket, req[r].arg_path)]
                  = cache[CacheKey(req[r].arg_bucket, req[r].arg_path)]

\* Call r1 fell back to the placeholder for the pair call r2 names too, and
\* no call has written the key of that pair.
RepeatedAfterFallback(r1, r2) ==
    /\ r1 # r2
    /\ FellBack(req[r1]) /\ req[r1].pc = "done"
    /\ req[r1].outcome.kind = "return"
    /\ IsLinkCall(r2) /\ Named(r2) = Named(r1)
    /\ last_set[CacheKey(req[r2].arg_bucket, req[r2].arg_path)] = None

(* C13: a get_file_link_service call writes the cache at most once and     *)
(* only under the key of the object its presigned URL was issued for; a    *)
(* call that fails leaves the cache unchanged; a call that falls back to   *)
(* the placeholder writes only file_link:default:<placeholder path> and    *)
(* leaves the key it was asked for absent, so that a repeated request for  *)
(* the same missing object misses the cache and queries the Gateway again. *)
C13_Frame ==
    /\ []C13_Written
    /\ [][\A r \in Callers : C13_StepFrame(r)]_vars
    /\ [][\A r1, r2 \in Callers :
            (/\ RepeatedAfterFallback(r1, r2)
             /\ req[r2].pc = "redis_get" /\ req[r2].depth = 0
             /\ req'[r2] # req[r2] /\ req'[r2].outcome.kind # "raise") =>
                /\ req'[r2].pc = "file_exists"
                /\ Last(req'[r2].reads).found = None]_vars

\* One call fell back and wrote the placeholder's key only; a second call
\* for the same missing object missed the cache, asked the store and failed
\* with NotFound, writing nothing.
C13_Witness ==
    \E r1, r2 \in Callers :
        /\ RepeatedAfterFallback(r1, r2)
        /\ req[r1].sets = <<PlaceholderKey>>
        /\ cache[PlaceholderKey] = Some(Entry(req[r1].link[1], 3600))
        /\ cache[CacheKey(req[r1].arg_bucket, req[r1].arg_path)] = None
        /\ req[r2].pc = "done"
        /\ ~req[r2].placeholder_if_not_found
        /\ req[r2].reads # <<>>
        /\ req[r2].reads[1].found = None
        /\ req[r2].reads[1].after_fallback
        /\ req[r2].calls # <<>>
        /\ req[r2].calls[1].op = "file_exists"
        /\ <<req[r2].calls[1].bucket, req[r2].calls[1].object>> = Named(r2)
        /\ req[r2].outcome.kind = "raise"
        /\ req[r2].sets = <<>>

====
